---- MODULE Spec2Model ----
(***************************************************************************)
(* The PDF distiller: the text-distillation core of the summarize route    *)
(* (sanitizeText, splitIntoSentences, tokenize, buildFrequencyMap,         *)
(* scoreSentences, pickTopSentences, buildTitle, buildThesis,              *)
(* buildCallToAction, summarise) and the upload page's request state       *)
(* machine (HomePage: onChange, handleSubmit, fetch completion).           *)
(*                                                                         *)
(* A string is a sequence of UTF-16 code units (all characters used are in *)
(* the Basic Multilingual Plane, so one unit is one character and          *)
(* String.length is Len).  A Map<string, V> is a function whose domain is  *)
(* the set of keys.  A score total / tokens.length is the rational         *)
(* <<numerator, denominator>> in lowest terms: the numbers involved are    *)
(* small integers, on which IEEE double division is injective and          *)
(* monotone, so comparing the rationals is comparing the doubles.          *)
(***************************************************************************)
EXTENDS Integers, Sequences, FiniteSets, TLC

VARIABLES
  \* summarise(text): the argument, the position and the locals
  text, pc, sanitized, segmented, sentences, freq, scores, result, thrown,
  \* HomePage: the four useState cells and the fetches in flight
  file, summary, status, error, inflight, issued

coreVars == <<text, pc, sanitized, segmented, sentences, freq, scores, result, thrown>>
pageVars == <<file, summary, status, error, inflight, issued>>
vars == <<coreVars, pageVars>>

----------------------------------------------------------------------------
(* Bounds of the model                                                     *)

\* longest raw text enumerated character by character
MaxChars == 4
\* most sentences in an enumerated document
MaxSentences == 8
\* sentences beyond the truncation limit in the long documents
MaxExtra == 1
\* most fetches the page issues in one behaviour
MaxRequests == 3

----------------------------------------------------------------------------
(* Characters and strings                                                  *)

AsciiLow == " !\"#$%&'()*+,-./0123456789:;<=>?@ABCDEFGHIJKLMNOPQRSTUVWXYZ"
AsciiLetters == "abcdefghijklmnopqrstuvwxyz"

\* the code unit of a one-character string literal
CodeOf(ch) ==
  IF \E k \in 1..Len(AsciiLow) : SubSeq(AsciiLow, k, k) = ch
  THEN 31 + (CHOOSE k \in 1..Len(AsciiLow) : SubSeq(AsciiLow, k, k) = ch)
  ELSE 96 + (CHOOSE k \in 1..Len(AsciiLetters) : SubSeq(AsciiLetters, k, k) = ch)

\* a string literal as its sequence of code units
Chars(str) == SubSeq([i \in 1..Len(str) |-> CodeOf(SubSeq(str, i, i))], 1, Len(str))

\* a function on 1..n as an explicit sequence
AsSeq(f, n) == SubSeq(f, 1, n)

Indices(s) == AsSeq([i \in 1..Len(s) |-> i], Len(s))

Min(a, b) == IF a <= b THEN a ELSE b

\* the regex class \s, which is also what String.prototype.trim strips
IsWhiteSpace(c) ==
  \/ c \in {9, 10, 11, 12, 13, 32, 160, 5760, 8232, 8233, 8239, 8287, 12288, 65279}
  \/ c \in 8192..8202

\* the regex class [\u0000-\u001f\u007f]
IsControl(c) == c \in 0..31 \/ c = 127

\* the regex class [.!?]
IsTerminator(c) == c \in {46, 33, 63}

\* the regex class [A-ZÀ-ÖØ-Þ]
IsUpper(c) == c \in 65..90 \/ c \in 192..214 \/ c \in 216..222

\* the class without the colon
IsTitleDelimiterNoColon(c) == c \in {46, 33, 63}

\* the regex class [:.!?]
IsTitleDelimiter(c) == c \in {58, 46, 33, 63}

\* the last index of the maximal run of characters satisfying \s that starts at p
WhiteSpaceRunEnd(s, p) ==
  CHOOSE q \in p..Len(s) :
    /\ \A k \in p..q : IsWhiteSpace(s[k])
    /\ q = Len(s) \/ ~IsWhiteSpace(s[q + 1])

\* String.prototype.trim
Trim(s) ==
  LET solid == SelectSeq(Indices(s), LAMBDA i : ~IsWhiteSpace(s[i]))
  IN  IF solid = <<>> THEN <<>> ELSE SubSeq(s, solid[1], solid[Len(solid)])

\* .replace(/\s+/g, " "): every maximal whitespace run becomes one space
CollapseWhiteSpace(s) ==
  LET starts == SelectSeq(Indices(s),
                  LAMBDA i : ~IsWhiteSpace(s[i]) \/ i = 1 \/ ~IsWhiteSpace(s[i - 1]))
  IN  AsSeq([k \in 1..Len(starts) |->
               IF IsWhiteSpace(s[starts[k]]) THEN 32 ELSE s[starts[k]]], Len(starts))

\* .replace(/[\u0000-\u001f\u007f]/g, " "): every control character becomes a space
ReplaceControls(s) ==
  AsSeq([i \in 1..Len(s) |-> IF IsControl(s[i]) THEN 32 ELSE s[i]], Len(s))

\* TRUE, and v has been computed: an operator's argument is computed when it is
\* first used, and a loop over lo..hi, written below as the loop over lo..mid
\* followed by the loop over mid + 1..hi, has its first half computed first
Computed(v) == v = v

\* the sequences of a[lo..hi] concatenated in order
RECURSIVE Flatten(_, _, _)
Flatten(a, lo, hi) ==
  IF lo > hi THEN <<>>
  ELSE IF lo = hi THEN a[lo]
  ELSE LET mid == (lo + hi) \div 2
       IN  Flatten(a, lo, mid) \o Flatten(a, mid + 1, hi)

----------------------------------------------------------------------------
(* The distillation core                                                   *)

MIN_SENTENCE_LENGTH == 40
MAX_KEY_POINTS == 6
\* the literal of .slice(0, 180)
SentenceCap == 180

sanitizeText(t) == Trim(ReplaceControls(CollapseWhiteSpace(t)))

\* the start indices of the matches of /(?<=[.!?])\s+(?=[A-ZÀ-ÖØ-Þ])/u: a
\* whitespace run right after a terminator and right before an uppercase letter
\* (a shorter match would be followed by whitespace, so only whole runs match)
SeparatorStarts(s) ==
  SelectSeq(Indices(s),
    LAMBDA p : /\ p > 1
               /\ IsWhiteSpace(s[p])
               /\ IsTerminator(s[p - 1])
               /\ LET q == WhiteSpaceRunEnd(s, p)
                  IN  q < Len(s) /\ IsUpper(s[q + 1]))

\* String.prototype.split on that pattern: the pieces between the matches
SplitAtBoundaries(s) ==
  LET seps == SeparatorStarts(s)
      m == Len(seps)
  IN  AsSeq([k \in 1..(m + 1) |->
               SubSeq(s,
                      IF k = 1 THEN 1 ELSE WhiteSpaceRunEnd(s, seps[k - 1]) + 1,
                      IF k = m + 1 THEN Len(s) ELSE seps[k] - 1)], m + 1)

\* the filter with > for >=
LongEnoughStrict(sentence) == Len(sentence) > MIN_SENTENCE_LENGTH

\* sentence.length >= MIN_SENTENCE_LENGTH
LongEnough(sentence) == Len(sentence) >= MIN_SENTENCE_LENGTH

splitIntoSentences(t) ==
  LET pieces == SplitAtBoundaries(t)
      trimmed == AsSeq([k \in 1..Len(pieces) |-> Trim(pieces[k])], Len(pieces))
  IN  SelectSeq(trimmed, LongEnough)

\* String.prototype.toLowerCase on Basic Latin and Latin-1
toLowerCase(c) == IF IsUpper(c) THEN c + 32 ELSE c

\* the combining mark of the canonical decomposition of a lowercase Latin-1 letter
CombiningMark(c) ==
  CASE c \in 224..229 -> <<768, 769, 770, 771, 776, 778>>[c - 223]
    [] c = 231 -> 807
    [] c \in 232..235 -> <<768, 769, 770, 776>>[c - 231]
    [] c \in 236..239 -> <<768, 769, 770, 776>>[c - 235]
    [] c = 241 -> 771
    [] c \in 242..246 -> <<768, 769, 770, 771, 776>>[c - 241]
    [] c \in 249..252 -> <<768, 769, 770, 776>>[c - 248]
    [] c = 253 -> 769
    [] c = 255 -> 776

\* the base letter of that decomposition
BaseLetter(c) ==
  CASE c \in 224..229 -> 97
    [] c = 231 -> 99
    [] c \in 232..235 -> 101
    [] c \in 236..239 -> 105
    [] c = 241 -> 110
    [] c \in 242..246 -> 111
    [] c \in 249..252 -> 117
    [] c \in {253, 255} -> 121

\* String.prototype.normalize("NFD") of one character of Basic Latin or Latin-1
Decompose(c) ==
  IF c \in (224..255) \ {230, 240, 247, 248, 254}
  THEN <<BaseLetter(c), CombiningMark(c)>>
  ELSE IF c \in (192..221) \ {198, 208, 215, 216}
  THEN <<BaseLetter(c + 32) - 32, CombiningMark(c + 32)>>
  ELSE <<c>>

\* \p{Diacritic} on Basic Latin, Latin-1 and the combining diacritical marks
IsDiacritic(c) == c \in {94, 96, 168, 175, 180, 183, 184} \/ c \in 768..846

\* the regex class [a-zà-ÿ\s-], whose complement is replaced by a space
IsWordCharacter(c) == c \in 97..122 \/ c \in 224..255 \/ IsWhiteSpace(c) \/ c = 45

\* String.prototype.split(/\s+/): the pieces between the maximal whitespace runs
SplitOnWhiteSpace(s) ==
  LET seps == SelectSeq(Indices(s),
                LAMBDA i : IsWhiteSpace(s[i]) /\ (i = 1 \/ ~IsWhiteSpace(s[i - 1])))
      m == Len(seps)
  IN  AsSeq([k \in 1..(m + 1) |->
               SubSeq(s,
                      IF k = 1 THEN 1 ELSE WhiteSpaceRunEnd(s, seps[k - 1]) + 1,
                      IF k = m + 1 THEN Len(s) ELSE seps[k] - 1)], m + 1)

STOPWORDS ==
  { Chars("a"), Chars("afin"), Chars("ai"), Chars("ainsi"), Chars("alors"),
    <<97, 112, 114, 232, 115>>, Chars("au"), Chars("aucun"), Chars("aussi"), Chars("autre"),
    Chars("aux"), Chars("avant"), Chars("avec"), Chars("avoir"), Chars("bon"), Chars("car"),
    Chars("ce"), Chars("ceci"), Chars("cela"), Chars("ces"), Chars("cet"), Chars("cette"),
    Chars("ceux"), Chars("chaque"), Chars("comme"), Chars("comment"), Chars("dans"),
    Chars("de"), Chars("des"), Chars("du"), Chars("elle"), Chars("elles"), Chars("en"),
    Chars("encore"), Chars("est"), Chars("et"), <<233, 116, 97, 105, 101, 110, 116>>,
    <<233, 116, 97, 105, 116>>, <<234, 116, 114, 101>>, Chars("eu"), Chars("fait"),
    Chars("faites"), Chars("fais"), Chars("font"), Chars("ici"), Chars("il"), Chars("ils"),
    Chars("je"), Chars("la"), Chars("le"), Chars("les"), Chars("leur"), Chars("leurs"),
    Chars("lui"), Chars("mais"), Chars("mes"), Chars("moi"), Chars("mon"), Chars("ne"),
    Chars("nos"), Chars("notre"), Chars("nous"), Chars("on"), Chars("ou"), Chars("par"),
    Chars("pas"), Chars("peu"), Chars("plus"), Chars("pour"), Chars("qu"), Chars("que"),
    Chars("quel"), Chars("quelle"), Chars("quelles"), Chars("quels"), Chars("qui"),
    Chars("sa"), Chars("sans"), Chars("ses"), Chars("son"), Chars("sont"), Chars("sur"),
    Chars("ta"), Chars("tandis"), Chars("te"), Chars("tes"), Chars("toi"), Chars("ton"),
    Chars("toujours"), Chars("tous"), Chars("tout"), Chars("toute"), Chars("toutes"),
    Chars("tu"), Chars("un"), Chars("une"), Chars("vos"), Chars("votre"), Chars("vous"),
    Chars("y") }

tokenize(sentence) ==
  LET n == Len(sentence)
      lowered == [i \in 1..n |-> toLowerCase(sentence[i])]
      decomposed == Flatten([i \in 1..n |-> Decompose(lowered[i])], 1, n)
      stripped == SelectSeq(decomposed, LAMBDA c : ~IsDiacritic(c))
      replaced == AsSeq([i \in 1..Len(stripped) |->
                    IF IsWordCharacter(stripped[i]) THEN stripped[i] ELSE 32],
                    Len(stripped))
  IN  SelectSeq(SplitOnWhiteSpace(replaced),
                LAMBDA token : token # <<>> /\ token \notin STOPWORDS)

\* Map.prototype.get(key) ?? 0
GetOrZero(map, key) == IF key \in DOMAIN map THEN map[key] ELSE 0

\* Map.prototype.set(key, value)
MapSet(map, key, value) == (key :> value) @@ map

EmptyMap == [key \in {} |-> 0]

\* freq.set(token, 1), forgetting the count so far
IncrementForgetful(map, token) == MapSet(map, token, 1)

\* const prev = freq.get(token) ?? 0; freq.set(token, prev + 1)
Increment(map, token) == MapSet(map, token, GetOrZero(map, token) + 1)

\* the inner loop of buildFrequencyMap over tokens[lo..hi], in order
RECURSIVE CountTokens(_, _, _, _)
CountTokens(acc, tokens, lo, hi) ==
  IF lo > hi THEN acc
  ELSE IF lo = hi THEN Increment(acc, tokens[lo])
  ELSE LET mid == (lo + hi) \div 2
           before == CountTokens(acc, tokens, lo, mid)
       IN  IF Computed(before) THEN CountTokens(before, tokens, mid + 1, hi) ELSE acc

\* the outer loop of buildFrequencyMap over ss[lo..hi], in order
RECURSIVE CountSentences(_, _, _, _)
CountSentences(acc, ss, lo, hi) ==
  IF lo > hi THEN acc
  ELSE IF lo = hi
  THEN LET tokens == tokenize(ss[lo]) IN CountTokens(acc, tokens, 1, Len(tokens))
  ELSE LET mid == (lo + hi) \div 2
           before == CountSentences(acc, ss, lo, mid)
       IN  IF Computed(before) THEN CountSentences(before, ss, mid + 1, hi) ELSE acc

buildFrequencyMap(ss) == CountSentences(EmptyMap, ss, 1, Len(ss))

\* tokens.reduce((sum, token) => sum + (freq.get(token) ?? 0), 0) over tokens[lo..hi]
RECURSIVE SumFrequencies(_, _, _, _, _)
SumFrequencies(sum, f, tokens, lo, hi) ==
  IF lo > hi THEN sum
  ELSE IF lo = hi THEN sum + GetOrZero(f, tokens[lo])
  ELSE LET mid == (lo + hi) \div 2
           before == SumFrequencies(sum, f, tokens, lo, mid)
       IN  IF Computed(before) THEN SumFrequencies(before, f, tokens, mid + 1, hi) ELSE sum

RECURSIVE Gcd(_, _)
Gcd(a, b) == IF b = 0 THEN a ELSE Gcd(b, a % b)

\* the number total / count
Ratio(total, count) ==
  LET g == Gcd(total, count) IN <<total \div g, count \div g>>

Zero == <<0, 1>>

Less(x, y) == x[1] * y[2] < y[1] * x[2]

\* the loop of scoreSentences over ss[lo..hi], in order
RECURSIVE ScoreLoop(_, _, _, _, _)
ScoreLoop(acc, f, ss, lo, hi) ==
  IF lo > hi THEN acc
  ELSE IF lo = hi
  THEN LET tokens == tokenize(ss[lo])
       IN  IF tokens = <<>> THEN acc
           ELSE MapSet(acc, ss[lo],
                       Ratio(SumFrequencies(0, f, tokens, 1, Len(tokens)), Len(tokens)))
  ELSE LET mid == (lo + hi) \div 2
           before == ScoreLoop(acc, f, ss, lo, mid)
       IN  IF Computed(before) THEN ScoreLoop(before, f, ss, mid + 1, hi) ELSE acc

scoreSentences(ss, f) == ScoreLoop(EmptyMap, f, ss, 1, Len(ss))

\* scores.get(sentence) ?? 0
ScoreOf(sc, sentence) == IF sentence \in DOMAIN sc THEN sc[sentence] ELSE Zero

\* the sort with its comparator reversed, (scores.get(a) ?? 0) - (scores.get(b) ?? 0)
SortByScoreAscending(ss, sc) ==
  LET n == Len(ss)
      s == AsSeq([i \in 1..n |-> ScoreOf(sc, ss[i])], n)
      place == AsSeq([i \in 1..n |->
                 1 + Cardinality({j \in 1..n : Less(s[j], s[i]) \/ (s[j] = s[i] /\ j < i)})],
                 n)
  IN  AsSeq([k \in 1..n |-> ss[CHOOSE i \in 1..n : place[i] = k]], n)

\* [...sentences].sort((a, b) => (scores.get(b) ?? 0) - (scores.get(a) ?? 0)):
\* Array.prototype.sort is stable, so an element's place in the result is one more
\* than the number of elements that score higher or score the same and come earlier
SortByScore(ss, sc) ==
  LET n == Len(ss)
      s == AsSeq([i \in 1..n |-> ScoreOf(sc, ss[i])], n)
      place == AsSeq([i \in 1..n |->
                 1 + Cardinality({j \in 1..n : Less(s[i], s[j]) \/ (s[j] = s[i] /\ j < i)})],
                 n)
  IN  AsSeq([k \in 1..n |-> ss[CHOOSE i \in 1..n : place[i] = k]], n)

\* the strongest sentences returned as sorted, without the pass over `sentences`
pickTopSentencesRanked(ss, sc, limit) ==
  SubSeq(SortByScore(ss, sc), 1, Min(limit, Len(ss)))

pickTopSentences(ss, sc, limit) ==
  LET sorted == SortByScore(ss, sc)
      strongest == {sorted[k] : k \in 1..Min(limit, Len(sorted))}
  IN  SelectSeq(ss, LAMBDA sentence : sentence \in strongest)

FallbackTitle == Chars("Essentiel du chapitre")

\* first.split(/[:.!?]/)[0]: the text before the first delimiter
BeforeFirstDelimiter(s) ==
  LET hits == SelectSeq(Indices(s), LAMBDA i : IsTitleDelimiter(s[i]))
  IN  IF hits = <<>> THEN s ELSE SubSeq(s, 1, hits[1] - 1)

buildTitle(ss) ==
  IF ss = <<>> THEN FallbackTitle
  ELSE LET snippet == Trim(BeforeFirstDelimiter(ss[1]))
       IN  IF Len(snippet) > 0 THEN snippet ELSE FallbackTitle

\* Array.prototype.join(" ")
Join(ss) ==
  Flatten([k \in 1..(2 * Len(ss) - 1) |-> IF k % 2 = 1 THEN ss[(k + 1) \div 2] ELSE <<32>>],
          1, 2 * Len(ss) - 1)

buildThesis(ss) == Trim(CollapseWhiteSpace(Join(SubSeq(ss, 1, Min(2, Len(ss))))))

FallbackCallToAction ==
  Chars("Concluez en soulignant la port") \o <<233>>
    \o Chars("e pratique de ces enseignements pour le lecteur.")

CallToActionLead == Chars("Poursuivez le chapitre en d") \o <<233>> \o Chars("veloppant: ")

buildCallToAction(ss) ==
  LET last == IF ss = <<>> THEN <<>> ELSE ss[Len(ss)]
  IN  IF last = <<>> THEN FallbackCallToAction ELSE CallToActionLead \o last

EmptyDocument == Chars("Aucun contenu exploitable trouv") \o <<233>> \o Chars(" dans ce PDF.")

NoSummary ==
  [titleSuggestion |-> <<>>, thesis |-> <<>>, keyPoints |-> <<>>, callToAction |-> <<>>]

\* summarise(text), from entry to its return or its throw; the locals are kept
\* in the variables named after them
Summarise ==
  /\ pc = "ready"
  /\ sanitized' = sanitizeText(text)
  /\ segmented' = splitIntoSentences(sanitized')
  /\ sentences' = SubSeq(segmented', 1, Min(SentenceCap, Len(segmented')))
  /\ IF sentences' = <<>>
     THEN /\ thrown' = EmptyDocument
          /\ pc' = "threw"
          /\ UNCHANGED <<freq, scores, result>>
     ELSE /\ freq' = buildFrequencyMap(sentences')
          /\ scores' = scoreSentences(sentences', freq')
          /\ LET keySentences == pickTopSentences(sentences', scores', MAX_KEY_POINTS)
             IN  result' = [titleSuggestion |-> buildTitle(keySentences),
                            thesis |-> buildThesis(sentences'),
                            keyPoints |-> keySentences,
                            callToAction |-> buildCallToAction(sentences')]
          /\ pc' = "returned"
          /\ UNCHANGED thrown
  /\ UNCHANGED <<text, pageVars>>

----------------------------------------------------------------------------
(* The texts summarise is applied to                                       *)

\* a letter, a space, a line feed (whitespace and control), NUL and DEL (control only)
Alphabet == {97, 32, 10, 0, 127}

RECURSIVE StringsUpTo(_)
StringsUpTo(n) ==
  IF n = 0 THEN {<<>>}
  ELSE LET shorter == StringsUpTo(n - 1)
       IN  shorter \cup {Append(s, c) : s \in shorter, c \in Alphabet}

\* four sentences of exactly 40 characters and the same tokens, three sentences
\* sharing no token with any other, sentences about one topic (one with a title
\* before a colon, one with accented letters, one that starts with a colon and a
\* lowercase letter), a sentence of stop words only, and a fragment of 39 characters
Pool ==
  << Chars("Le projet avance selon le plan numero 1."),
     Chars("Le projet avance selon le plan numero 2!"),
     Chars("Le projet avance selon le plan numero 3?"),
     Chars("Le projet avance selon le plan numero 4."),
     Chars("Le chien dort pres de la maison pendant la nuit."),
     Chars("Un oiseau bleu chante sur une branche haute ce matin."),
     Chars("Vingt navires quittent lentement ce port breton demain."),
     Chars("Le chat noir observe le chat gris dans le jardin."),
     Chars("Titre: le chat gris chasse une souris dans le jardin."),
     Chars("Il est et il est et il est et il est et il est."),
     <<201>> \o Chars("cole du chat: la le") \o <<231>> \o Chars("on porte sur le jardin d'")
       \o <<233>> \o Chars("t") \o <<233>> \o Chars("."),
     Chars(": suite sans titre ou le chat gris dort au jardin."),
     Chars("Le projet avance selon le plan numeros."),
     Chars("1234 5678 9012 3456 7890 1234 5678 9012 3456.") >>

\* what stands between two sentences: a space, a run of line feeds and a tab, and
\* a NUL between two spaces
Separators == << <<32>>, <<10, 10, 9>>, <<32, 0, 32>> >>

Strides == {0, 1, 5, 7}

\* n sentences of the first `modulus` of the pool, from `offset` on by `stride`
Document(offset, stride, modulus, n, sep) ==
  Flatten([k \in 1..(2 * n - 1) |->
             IF k % 2 = 1
             THEN Pool[((offset + ((k - 1) \div 2) * stride) % modulus) + 1]
             ELSE Separators[sep]],
          1, 2 * n - 1)

Documents ==
  { Document(offset, stride, Len(Pool), n, sep) :
      offset \in 0..(Len(Pool) - 1), stride \in Strides,
      n \in 1..MaxSentences, sep \in 1..Len(Separators) }

\* documents of about SentenceCap sentences, over the four 40-character sentences
LongDocuments ==
  { Document(0, 1, 4, n, 1) : n \in (SentenceCap - 1)..(SentenceCap + MaxExtra) }

Inputs == StringsUpTo(MaxChars) \cup Documents

InitPage ==
  /\ file = 0
  /\ summary = 0
  /\ status = "idle"
  /\ error = 0
  /\ inflight = {}
  /\ issued = 0

InitCore(texts) ==
  /\ text \in texts
  /\ pc = "ready"
  /\ sanitized = <<>>
  /\ segmented = <<>>
  /\ sentences = <<>>
  /\ freq = EmptyMap
  /\ scores = EmptyMap
  /\ result = NoSummary
  /\ thrown = <<>>

Init == InitCore(Inputs) /\ InitPage

Next == Summarise

Spec == Init /\ [][Next]_vars

InitLong == InitCore(Inputs \cup LongDocuments) /\ InitPage

SpecLong == InitLong /\ [][Next]_vars

----------------------------------------------------------------------------
(* The upload page                                                         *)

\* files the user can select, 1..MaxFiles; 0 is null (no file, no summary, no error)
MaxFiles == 2

\* onChange of the file input
OnChange(nextFile) ==
  /\ file' = nextFile
  /\ summary' = 0
  /\ status' = "idle"
  /\ UNCHANGED <<error, inflight, issued, coreVars>>

\* handleSubmit up to its await: the submit button is disabled while loading; with
\* no file it sets the error and returns, otherwise it starts the fetch of `file`
HandleSubmit ==
  /\ status # "loading"
  /\ IF file = 0
     THEN /\ error' = 1
          /\ UNCHANGED <<file, summary, status, inflight, issued>>
     ELSE /\ issued < MaxRequests
          /\ status' = "loading"
          /\ error' = 0
          /\ inflight' = inflight \cup {[id |-> issued + 1, of |-> file]}
          /\ issued' = issued + 1
          /\ UNCHANGED <<file, summary>>
  /\ UNCHANGED coreVars

\* handleSubmit after its await, response.ok: the payload is the summary of the
\* file the request was sent with
FetchResolved(request) ==
  /\ request \in inflight
  /\ inflight' = inflight \ {request}
  /\ summary' = request.of
  /\ status' = "success"
  /\ UNCHANGED <<file, error, issued, coreVars>>

\* handleSubmit after its await, the catch branch: !response.ok or a failed fetch
FetchRejected(request) ==
  /\ request \in inflight
  /\ inflight' = inflight \ {request}
  /\ status' = "error"
  /\ summary' = 0
  /\ error' = 2
  /\ UNCHANGED <<file, issued, coreVars>>

NextPage ==
  \/ \E nextFile \in 0..MaxFiles : OnChange(nextFile)
  \/ HandleSubmit
  \/ \E request \in inflight : FetchResolved(request)
  \/ \E request \in inflight : FetchRejected(request)

\* the page alone: summarise is not called
InitPageOnly == InitCore({<<>>}) /\ InitPage

SpecPage == InitPageOnly /\ [][NextPage]_vars

----------------------------------------------------------------------------
(* Properties                                                              *)

Range(s) == {s[i] : i \in 1..Len(s)}

\* the first index of x in s
FirstIndex(s, x) == CHOOSE i \in 1..Len(s) : s[i] = x /\ \A j \in 1..(i - 1) : s[j] # x

RECURSIVE IsSubsequence(_, _)
IsSubsequence(a, b) ==
  IF a = <<>> THEN TRUE
  ELSE IF b = <<>> THEN FALSE
  ELSE IF Head(a) = Head(b) THEN IsSubsequence(Tail(a), Tail(b))
  ELSE IsSubsequence(a, Tail(b))

RECURSIVE Sum(_)
Sum(numbers) == IF numbers = <<>> THEN 0 ELSE Head(numbers) + Sum(Tail(numbers))

Returned == pc = "returned"

keyPoints == result.keyPoints

\* C1: when summarise succeeds, keyPoints has at most 6 elements and at most as
\* many as there are segmented sentences, and each is one of the segmented sentences
C1_KeyPointsBounded ==
  Returned =>
    /\ Len(keyPoints) <= 6
    /\ Len(keyPoints) <= Len(sentences)
    /\ Range(keyPoints) \subseteq Range(sentences)

\* C2: a segmented sentence with no token is not in the score map and is not a key point
C2_TokenlessNeverSelected ==
  Returned =>
    \A s \in Range(sentences) :
      tokenize(s) = <<>> => s \notin DOMAIN scores /\ s \notin Range(keyPoints)

\* C3: the sanitized text has no control character, no whitespace at either end,
\* and no whitespace other than single spaces
C3_SanitizedClean ==
  pc # "ready" =>
    /\ \A i \in 1..Len(sanitized) : ~IsControl(sanitized[i])
    /\ sanitized # <<>> =>
         ~IsWhiteSpace(sanitized[1]) /\ ~IsWhiteSpace(sanitized[Len(sanitized)])
    /\ \A i \in 1..Len(sanitized) : IsWhiteSpace(sanitized[i]) => sanitized[i] = 32
    /\ \A i \in 1..(Len(sanitized) - 1) :
         ~(IsWhiteSpace(sanitized[i]) /\ IsWhiteSpace(sanitized[i + 1]))

\* a sentence boundary right after position k of t: a terminator, whitespace up to
\* an uppercase letter
BoundaryAfter(t, k) ==
  /\ t[k] \in {46, 33, 63}
  /\ k < Len(t)
  /\ IsWhiteSpace(t[k + 1])
  /\ \E u \in (k + 2)..Len(t) :
       /\ t[u] \in (65..90) \cup (192..214) \cup (216..222)
       /\ \A w \in (k + 1)..(u - 1) : IsWhiteSpace(t[w])

\* t has at least 40 characters in a row, from the start of a word to a non-blank,
\* with no sentence boundary among them: a sentence of at least 40 characters
HasLongSentence(t) ==
  \E a \in 1..(Len(t) - 39) :
    /\ ~IsWhiteSpace(t[a])
    /\ a = 1 \/ IsWhiteSpace(t[a - 1])
    /\ \E b \in (a + 39)..Len(t) :
         /\ ~IsWhiteSpace(t[b])
         /\ \A k \in (a + 39)..(b - 1) : IsWhiteSpace(t[k])
         /\ \A k \in a..(b - 1) : ~BoundaryAfter(t, k)

\* C4: summarise throws, and throws EmptyDocument, exactly when the sanitized text
\* has no sentence of at least 40 characters, so for every sanitized text shorter
\* than 40; it returns no summary of an empty sentence list
C4_EmptyDocumentExactly ==
  pc # "ready" =>
    /\ pc = "threw" <=> ~HasLongSentence(sanitized)
    /\ pc = "threw" <=> thrown = EmptyDocument
    /\ pc = "returned" <=> thrown = <<>>
    /\ Len(sanitized) < 40 => pc = "threw"
    /\ Returned => sentences # <<>> /\ keyPoints # <<>>

\* summarise threw on a text of 40 characters or more
C4_Witness == pc = "threw" /\ Len(sanitized) >= 40 /\ thrown = EmptyDocument

\* C5: keyPoints is a subsequence of the segmented sentences: two key points
\* stand in the order in which they stand in the document
C5_DocumentOrder ==
  Returned =>
    /\ IsSubsequence(keyPoints, sentences)
    /\ \A s1, s2 \in Range(keyPoints) :
         FirstIndex(sentences, s1) < FirstIndex(sentences, s2)
           => FirstIndex(keyPoints, s1) < FirstIndex(keyPoints, s2)

\* a key point with a lower score stands before one with a higher score
C5_Witness ==
  /\ Returned
  /\ \E i, j \in 1..Len(keyPoints) :
       i < j /\ Less(ScoreOf(scores, keyPoints[i]), ScoreOf(scores, keyPoints[j]))

Occurrences(tokenLists, token) ==
  UNION { {<<i, j>> : j \in {j \in 1..Len(tokenLists[i]) : tokenLists[i][j] = token}} :
          i \in 1..Len(tokenLists) }

\* C7: the frequency table maps each token of the sentences to the number of its
\* occurrences in all of them, and a sentence with tokens scores the sum of its
\* tokens' frequencies divided by their number
C7_FrequenciesAndScores ==
  Returned =>
    LET tokenLists == AsSeq([i \in 1..Len(sentences) |-> tokenize(sentences[i])],
                            Len(sentences))
    IN  /\ DOMAIN freq = UNION {Range(tokenLists[i]) : i \in 1..Len(sentences)}
        /\ \A token \in DOMAIN freq :
             freq[token] = Cardinality(Occurrences(tokenLists, token))
        /\ \A i \in 1..Len(sentences) :
             LET tokens == tokenLists[i]
             IN  tokens # <<>> =>
                   /\ sentences[i] \in DOMAIN scores
                   /\ scores[sentences[i]][1] * Len(tokens)
                        = scores[sentences[i]][2]
                            * Sum([j \in 1..Len(tokens) |-> freq[tokens[j]]])

\* a sentence occurs twice and a sentence has a token twice
C7_Witness ==
  /\ Returned
  /\ \E i, j \in 1..Len(sentences) : i < j /\ sentences[i] = sentences[j]
  /\ \E s \in Range(sentences) :
       \E i, j \in 1..Len(tokenize(s)) : i < j /\ tokenize(s)[i] = tokenize(s)[j]

\* C8: when summarise succeeds, callToAction is the lead-in followed by the last
\* sentence of the whole segmented list, and never the generic fallback
C8_CallToActionLastSegmented ==
  Returned =>
    /\ result.callToAction = CallToActionLead \o segmented[Len(segmented)]
    /\ result.callToAction # FallbackCallToAction

\* C9: the title is the trimmed text of the first key point (first in the
\* document) before its first `:`, `.`, `!` or `?`, and the fallback exactly when
\* that text is empty
C9_Title ==
  Returned =>
    LET first == keyPoints[1]
        cuts == {i \in 1..Len(first) : first[i] \in {58, 46, 33, 63}}
        before == IF cuts = {} THEN Len(first)
                  ELSE (CHOOSE i \in cuts : \A j \in cuts : i <= j) - 1
        snippet == Trim(SubSeq(first, 1, before))
    IN  /\ \A s \in Range(keyPoints) :
             FirstIndex(sentences, first) <= FirstIndex(sentences, s)
        /\ result.titleSuggestion = IF snippet = <<>> THEN FallbackTitle ELSE snippet

\* the first key point has a colon after five characters and is not the
\* highest-scoring one, and the title is the text before the colon
C9_Witness ==
  /\ Returned
  /\ keyPoints[1][6] = 58
  /\ result.titleSuggestion = Chars("Titre")
  /\ \E s \in Range(keyPoints) : Less(ScoreOf(scores, keyPoints[1]), ScoreOf(scores, s))

\* C10: a summary shown is the summary of the file selected, and at most one
\* request is in flight
C10_ShownSummaryIsCurrent ==
  /\ (status = "success" /\ summary # 0) => summary = file
  /\ Cardinality(inflight) <= 1

====
